---- MODULE Spec2Model ----
(***************************************************************************)
(* Model of netcap's layer encoder framework (encoder/layerEncoder.go):    *)
(* resolution of the active encoder set from the include / exclude lists,  *)
(* assembly of the writer stack of each encoder, the header write, the     *)
(* registry, concurrent Encode calls and Destroy.                          *)
(*                                                                         *)
(* Strings are sequences of lexical tokens: a protocol name token or the   *)
(* separator ",".  A name is the sequence of tokens between separators,    *)
(* so <<>> is the empty name and <<"TCP","UDP">> is the unknown "TCPUDP".  *)
(* A sink holds units: [k, r, z] with k the kind of the unit ("len" and    *)
(* "dat" are the two writes of one length-delimited frame, "row" is one    *)
(* tabular row, "eof" the gzip trailer), r the record (0 is the header)    *)
(* and z whether the unit is in compressed form.                           *)
(***************************************************************************)
EXTENDS Integers, Sequences, FiniteSets, TLC

VARIABLES c, layerEncoderSlice, LayerEncoders, enc, pc, idx, fatal,
          wk, calls, hist

vars == <<c, layerEncoderSlice, LayerEncoders, enc, pc, idx, fatal,
          wk, calls, hist>>

(* ------------------------------ bounds --------------------------------- *)

\* longest include string, in tokens, of the resolution specification
MaxIncludeLen == 3

\* longest exclude string, in tokens, of the resolution specification
MaxExcludeLen == 3

\* number of concurrent packet-processing workers of the driver
NumWorkers == 2

\* number of Encode calls the driver makes before it shuts down
MaxEncodes == 3

\* units the gzip compressor holds back before it emits a block
GzipWindow == 2

\* size of the buffered writers, in units (the file system's block size)
BlockSize == 2

(* ------------------------------ catalog -------------------------------- *)

Sep == ","

TCPEncoder == "TCP"

UDPEncoder == "UDP"

\* the catalog of all available encoders, in catalog order
Catalog == <<TCPEncoder, UDPEncoder>>

Layers == {Catalog[i] : i \in 1..Len(Catalog)}

\* e.Layer.String()
LayerString(e) == <<e>>

\* names of all encoders, filled from the catalog at start up
allEncoderNames == {LayerString(Catalog[i]) : i \in 1..Len(Catalog)}

Alphabet == Layers \cup {Sep}

Strings(n) == UNION {[1..k -> Alphabet] : k \in 0..n}

(* ------------------------- strings.Split(s, ",") ----------------------- *)

HasSep(s) == \E i \in 1..Len(s) : s[i] = Sep

FirstSep(s) == CHOOSE i \in 1..Len(s) : s[i] = Sep /\ \A j \in 1..(i-1) : s[j] # Sep

RECURSIVE Split(_)
Split(s) ==
  IF ~HasSep(s) THEN <<s>>
  ELSE <<SubSeq(s, 1, FirstSep(s) - 1)>> \o Split(SubSeq(s, FirstSep(s) + 1, Len(s)))

(* --------------------- InitLayerEncoders: resolution ------------------- *)

\* the include list is looked at only when its first element is not empty
IncludeGuard(in) == Len(in) > 0 /\ in[1] # <<>>

\* some name of the list makes the existence check fail
HasInvalid(names) ==
  \E i \in 1..Len(names) : names[i] # <<>> /\ names[i] \notin allEncoderNames

inMapOf(in) == {in[i] : i \in {j \in 1..Len(in) : in[j] # <<>>}}

InSelection(e, inMap) == LayerString(e) \in inMap

\* the catalog entries whose name is in inMap, in the order of the slice
SelectionOf(slice, inMap) == SelectSeq(slice, LAMBDA e : InSelection(e, inMap))

HasLayer(slice, name) == \E i \in 1..Len(slice) : LayerString(slice[i]) = name

FirstIndex(slice, name) ==
  CHOOSE i \in 1..Len(slice) :
    LayerString(slice[i]) = name /\ \A j \in 1..(i-1) : LayerString(slice[j]) # name

\* append(slice[:i], slice[i+1:]...) at the first entry named name
RemoveEncoder(slice, name) ==
  IF HasLayer(slice, name)
  THEN SubSeq(slice, 1, FirstIndex(slice, name) - 1)
         \o SubSeq(slice, FirstIndex(slice, name) + 1, Len(slice))
  ELSE slice

\* the exclude loop from its k-th name on: the slice it leaves and whether
\* it stopped at an invalid name
RECURSIVE ExcludeLoop(_, _, _)
ExcludeLoop(slice, ex, k) ==
  IF k > Len(ex) THEN [slice |-> slice, invalid |-> FALSE]
  ELSE IF ex[k] = <<>> THEN ExcludeLoop(slice, ex, k + 1)
  ELSE IF ex[k] \notin allEncoderNames THEN [slice |-> slice, invalid |-> TRUE]
  ELSE ExcludeLoop(RemoveEncoder(slice, ex[k]), ex, k + 1)

\* lines 121-162 on the slice: the slice left behind and whether
\* invalidProto was reached
Resolution(slice, include, exclude) ==
  LET in == Split(include)
      ex == Split(exclude)
  IN  IF IncludeGuard(in) /\ HasInvalid(in)
      THEN [slice |-> slice, invalid |-> TRUE]
      ELSE ExcludeLoop(IF IncludeGuard(in) THEN SelectionOf(slice, inMapOf(in)) ELSE slice,
                       ex, 1)

(* ------------------------- LayerEncoder objects ------------------------ *)

\* a pointer field is nil when its object has set = FALSE
NilFile == [set |-> FALSE, base |-> <<>>, ext |-> "", data |-> <<>>, open |-> FALSE]

NilBufio == [set |-> FALSE, under |-> "", buf |-> <<>>, err |-> FALSE]

NilGzip == [set |-> FALSE, under |-> "", pending |-> <<>>, err |-> FALSE, closed |-> FALSE]

NilWriter == [set |-> FALSE, under |-> "", owner |-> 0]

NilChan == [set |-> FALSE, ch |-> <<>>]

\* CreateLayerEncoder: only Layer, Type and Handler are set
CreateLayerEncoder(lt) ==
  [Layer |-> lt,
   file |-> NilFile, bWriter |-> NilBufio, gWriter |-> NilGzip,
   dWriter |-> NilWriter, aWriter |-> NilWriter, cWriter |-> NilChan,
   csvWriter |-> NilWriter,
   compress |-> FALSE, csv |-> FALSE, buffer |-> FALSE,
   nilUse |-> FALSE]

\* CreateFile(filepath.Join(out, name), ext)
CreateFile(name, ext) ==
  [set |-> TRUE, base |-> name, ext |-> ext, data |-> <<>>, open |-> TRUE]

\* bufio.NewWriterSize(under, BlockSize)
NewBufio(under) == [set |-> TRUE, under |-> under, buf |-> <<>>, err |-> FALSE]

\* gzip.NewWriter(under)
NewGzip(under) ==
  [set |-> TRUE, under |-> under, pending |-> <<>>, err |-> FALSE, closed |-> FALSE]

\* delimited.NewWriter, NewCSVWriter, NewAtomicDelimitedWriter
NewWriter(under) == [set |-> TRUE, under |-> under, owner |-> 0]

newChanWriter == [set |-> TRUE, ch |-> <<>>]

(* ---------------------------- LayerEncoder.Init ------------------------ *)

\* the flags the configuration check of Init rejects
WriteChanConflict(buffer, compress, writeChan) ==
  (writeChan /\ buffer) \/ (writeChan /\ compress)

\* lines 228-231
InitConfig(d, buffer, compress, csv) ==
  [d EXCEPT !.compress = compress, !.buffer = buffer, !.csv = csv]

\* InitCSV with the compressor of the buffered stack put on the file, past
\* the buffer
InitCSVGzipOnFile(d, buffer, compress) ==
  LET f == [d EXCEPT !.file = CreateFile(LayerString(d.Layer),
                                         IF compress THEN ".csv.gz" ELSE ".csv")]
  IN  IF buffer
      THEN IF compress
           THEN [f EXCEPT !.bWriter = NewBufio("file"),
                          !.gWriter = NewGzip("file"),
                          !.csvWriter = NewWriter("gWriter")]
           ELSE [f EXCEPT !.bWriter = NewBufio("file"),
                          !.csvWriter = NewWriter("bWriter")]
      ELSE IF compress
           THEN [f EXCEPT !.gWriter = NewGzip("file"),
                          !.csvWriter = NewWriter("gWriter")]
           ELSE [f EXCEPT !.csvWriter = NewWriter("file")]

\* lines 233-261: the tabular stack
InitCSV(d, buffer, compress) ==
  LET f == [d EXCEPT !.file = CreateFile(LayerString(d.Layer),
                                         IF compress THEN ".csv.gz" ELSE ".csv")]
  IN  IF buffer
      THEN IF compress
           THEN [f EXCEPT !.bWriter = NewBufio("file"),
                          !.gWriter = NewGzip("bWriter"),
                          !.csvWriter = NewWriter("gWriter")]
           ELSE [f EXCEPT !.bWriter = NewBufio("file"),
                          !.csvWriter = NewWriter("bWriter")]
      ELSE IF compress
           THEN [f EXCEPT !.gWriter = NewGzip("file"),
                          !.csvWriter = NewWriter("gWriter")]
           ELSE [f EXCEPT !.csvWriter = NewWriter("file")]

\* InitSink with the file created under writeChan as well
InitSinkAlwaysFile(d, compress, writeChan) ==
  LET f == [d EXCEPT !.file = CreateFile(LayerString(d.Layer),
                                         IF compress THEN ".ncap.gz" ELSE ".ncap")]
  IN  IF writeChan THEN [f EXCEPT !.cWriter = newChanWriter] ELSE f

\* lines 267-276: write into channel OR into file
InitSink(d, compress, writeChan) ==
  IF writeChan
  THEN [d EXCEPT !.cWriter = newChanWriter]
  ELSE [d EXCEPT !.file = CreateFile(LayerString(d.Layer),
                                     IF compress THEN ".ncap.gz" ELSE ".ncap")]

\* InitStack with the framer of the buffered, compressed stack put on the
\* buffer instead of the compressor
InitStackFramerOnBuffer(d, buffer, compress, writeChan) ==
  IF buffer
  THEN IF compress
       THEN [d EXCEPT !.bWriter = NewBufio("file"),
                      !.gWriter = NewGzip("bWriter"),
                      !.dWriter = NewWriter("bWriter")]
       ELSE [d EXCEPT !.bWriter = NewBufio("file"),
                      !.dWriter = NewWriter("bWriter")]
  ELSE IF compress
       THEN [d EXCEPT !.gWriter = NewGzip("file"),
                      !.dWriter = NewWriter("gWriter")]
       ELSE IF writeChan
            THEN [d EXCEPT !.dWriter = NewWriter("cWriter")]
            ELSE [d EXCEPT !.dWriter = NewWriter("file")]

\* lines 278-301: buffer, compressor and framer
InitStack(d, buffer, compress, writeChan) ==
  IF buffer
  THEN IF compress
       THEN [d EXCEPT !.bWriter = NewBufio("file"),
                      !.gWriter = NewGzip("bWriter"),
                      !.dWriter = NewWriter("gWriter")]
       ELSE [d EXCEPT !.bWriter = NewBufio("file"),
                      !.dWriter = NewWriter("bWriter")]
  ELSE IF compress
       THEN [d EXCEPT !.gWriter = NewGzip("file"),
                      !.dWriter = NewWriter("gWriter")]
       ELSE IF writeChan
            THEN [d EXCEPT !.dWriter = NewWriter("cWriter")]
            ELSE [d EXCEPT !.dWriter = NewWriter("file")]

\* InitAtomic with the atomic writer put on the file, past the framer
InitAtomicOnFile(d) == [d EXCEPT !.aWriter = NewWriter("file")]

\* line 303
InitAtomic(d) == [d EXCEPT !.aWriter = NewWriter("dWriter")]

\* LayerEncoderInit without the return of line 260: the tabular branch
\* falls through to the binary stack
LayerEncoderInitNoReturn(d, buffer, compress, csv, writeChan) ==
  LET d0 == InitConfig(d, buffer, compress, csv)
      d1 == IF csv THEN InitCSV(d0, buffer, compress) ELSE d0
  IN  IF WriteChanConflict(buffer, compress, writeChan)
      THEN [d |-> d1, panic |-> TRUE]
      ELSE [d |-> InitAtomic(InitStack(InitSink(d1, compress, writeChan),
                                       buffer, compress, writeChan)),
            panic |-> FALSE]

\* Init as a whole: the encoder it leaves and whether it panicked
LayerEncoderInit(d, buffer, compress, csv, writeChan) ==
  LET d0 == InitConfig(d, buffer, compress, csv)
  IN  IF csv THEN [d |-> InitCSV(d0, buffer, compress), panic |-> FALSE]
      ELSE IF WriteChanConflict(buffer, compress, writeChan)
      THEN [d |-> d0, panic |-> TRUE]
      ELSE [d |-> InitAtomic(InitStack(InitSink(d0, compress, writeChan),
                                       buffer, compress, writeChan)),
            panic |-> FALSE]

(* ------------------------------ sink writes ---------------------------- *)
(* Every write returns the encoder it leaves and whether it failed.  ok is *)
(* the outcome of the device: with ok = FALSE a write that reaches the     *)
(* file fails and stores nothing.                                          *)

Unit(k, r) == [k |-> k, r |-> r, z |-> FALSE]

\* the compressed form of a run of units
Deflate(us) == [i \in 1..Len(us) |-> [us[i] EXCEPT !.z = TRUE]]

GzipTrailer == <<[k |-> "eof", r |-> 0, z |-> TRUE]>>

\* os.File.Write: fails on a nil or closed file
FileWrite(d, p, ok) ==
  IF ~d.file.set THEN [d |-> [d EXCEPT !.nilUse = TRUE], err |-> TRUE]
  ELSE IF ~d.file.open \/ ~ok THEN [d |-> d, err |-> TRUE]
  ELSE [d |-> [d EXCEPT !.file.data = @ \o p], err |-> FALSE]

\* chanWriter.Write: one chunk per call
ChanWrite(d, p) ==
  IF ~d.cWriter.set THEN [d |-> [d EXCEPT !.nilUse = TRUE], err |-> TRUE]
  ELSE [d |-> [d EXCEPT !.cWriter.ch = Append(@, p)], err |-> FALSE]

\* bufio.Writer.Flush: a failed flush keeps the data and makes the error sticky
BufioFlush(d, ok) ==
  IF ~d.bWriter.set THEN [d |-> [d EXCEPT !.nilUse = TRUE], err |-> TRUE]
  ELSE IF d.bWriter.err THEN [d |-> d, err |-> TRUE]
  ELSE IF d.bWriter.buf = <<>> THEN [d |-> d, err |-> FALSE]
  ELSE LET w == FileWrite(d, d.bWriter.buf, ok)
       IN  IF w.err THEN [d |-> [w.d EXCEPT !.bWriter.err = TRUE], err |-> TRUE]
           ELSE [d |-> [w.d EXCEPT !.bWriter.buf = <<>>], err |-> FALSE]

\* bufio.Writer.Write: fill the buffer, flush when p does not fit, write a p
\* larger than the empty buffer straight to the file
RECURSIVE BufioWrite(_, _, _)
BufioWrite(d, p, ok) ==
  IF ~d.bWriter.set THEN [d |-> [d EXCEPT !.nilUse = TRUE], err |-> TRUE]
  ELSE IF d.bWriter.err THEN [d |-> d, err |-> TRUE]
  ELSE LET avail == BlockSize - Len(d.bWriter.buf) IN
       IF Len(p) <= avail
       THEN [d |-> [d EXCEPT !.bWriter.buf = @ \o p], err |-> FALSE]
       ELSE IF d.bWriter.buf = <<>>
       THEN LET w == FileWrite(d, p, ok)
            IN  IF w.err THEN [d |-> [w.d EXCEPT !.bWriter.err = TRUE], err |-> TRUE]
                ELSE w
       ELSE LET f == BufioFlush([d EXCEPT !.bWriter.buf = @ \o SubSeq(p, 1, avail)], ok)
            IN  IF f.err THEN f
                ELSE BufioWrite(f.d, SubSeq(p, avail + 1, Len(p)), ok)

\* the writer below the compressor
GzipUnder(d, p, ok) ==
  IF d.gWriter.under = "bWriter" THEN BufioWrite(d, p, ok) ELSE FileWrite(d, p, ok)

\* the compressor hands p, compressed, to the writer below it; what it held
\* is gone when that write fails
GzipEmit(d, p, ok) ==
  LET w == GzipUnder(d, Deflate(p), ok)
  IN  IF w.err
      THEN [d |-> [w.d EXCEPT !.gWriter.err = TRUE, !.gWriter.pending = <<>>], err |-> TRUE]
      ELSE [d |-> [w.d EXCEPT !.gWriter.pending = <<>>], err |-> FALSE]

\* gzip.Writer.Write: data stays in the compressor until a block is full
GzipWrite(d, p, ok) ==
  IF ~d.gWriter.set THEN [d |-> [d EXCEPT !.nilUse = TRUE], err |-> TRUE]
  ELSE IF d.gWriter.err \/ d.gWriter.closed THEN [d |-> d, err |-> TRUE]
  ELSE IF Len(d.gWriter.pending) + Len(p) < GzipWindow
  THEN [d |-> [d EXCEPT !.gWriter.pending = @ \o p], err |-> FALSE]
  ELSE GzipEmit(d, d.gWriter.pending \o p, ok)

\* gzip.Writer.Flush: everything held back is emitted
GzipFlush(d, ok) ==
  IF ~d.gWriter.set THEN [d |-> [d EXCEPT !.nilUse = TRUE], err |-> TRUE]
  ELSE IF d.gWriter.err \/ d.gWriter.closed THEN [d |-> d, err |-> TRUE]
  ELSE IF d.gWriter.pending = <<>> THEN [d |-> d, err |-> FALSE]
  ELSE GzipEmit(d, d.gWriter.pending, ok)

\* gzip.Writer.Close: the rest of the data, then the trailer
GzipClose(d, ok) ==
  IF ~d.gWriter.set THEN [d |-> [d EXCEPT !.nilUse = TRUE], err |-> TRUE]
  ELSE IF d.gWriter.err THEN [d |-> d, err |-> TRUE]
  ELSE IF d.gWriter.closed THEN [d |-> d, err |-> FALSE]
  ELSE LET w == GzipUnder(d, Deflate(d.gWriter.pending) \o GzipTrailer, ok)
       IN  IF w.err
           THEN [d |-> [w.d EXCEPT !.gWriter.err = TRUE, !.gWriter.pending = <<>>],
                 err |-> TRUE]
           ELSE [d |-> [w.d EXCEPT !.gWriter.pending = <<>>, !.gWriter.closed = TRUE],
                 err |-> FALSE]

\* one Write call on the writer named under
SinkWrite(d, under, p, ok) ==
  CASE under = "gWriter" -> GzipWrite(d, p, ok)
    [] under = "bWriter" -> BufioWrite(d, p, ok)
    [] under = "file"    -> FileWrite(d, p, ok)
    [] under = "cWriter" -> ChanWrite(d, p)
    [] OTHER             -> [d |-> [d EXCEPT !.nilUse = TRUE], err |-> TRUE]

\* delimited.Writer.Put, first write: the length prefix
PutLength(d, r, ok) == SinkWrite(d, d.dWriter.under, <<Unit("len", r)>>, ok)

\* delimited.Writer.Put, second write: the record
PutRecord(d, r, ok) == SinkWrite(d, d.dWriter.under, <<Unit("dat", r)>>, ok)

\* delimited.Writer.Put as a whole: the record is not written when the
\* prefix failed
Put(d, r, ok1, ok2) ==
  LET l == PutLength(d, r, ok1)
  IN  IF l.err THEN l ELSE PutRecord(l.d, r, ok2)

\* csvWriter.WriteHeader and csvWriter.WriteRecord: one row, one write
WriteRow(d, r, ok) == SinkWrite(d, d.csvWriter.under, <<Unit("row", r)>>, ok)

(* ------------------------------- Destroy ------------------------------- *)

\* CloseGzipWriters: Flush, then Close
CloseGzipWriters(d, ok) ==
  LET f == GzipFlush(d, ok)
  IN  IF f.err THEN f ELSE GzipClose(f.d, ok)

\* FlushWriters
FlushWriters(d, ok) == BufioFlush(d, ok)

\* CloseFile, handed d.file whatever it is
CloseFile(d) ==
  IF ~d.file.set THEN [d |-> [d EXCEPT !.nilUse = TRUE], err |-> FALSE]
  ELSE [d |-> [d EXCEPT !.file.open = FALSE], err |-> FALSE]

\* DestroySteps with the buffer flushed before the compressor is finalized
DestroyStepsFlushFirst(d) ==
  (IF d.buffer THEN <<"flush">> ELSE <<>>)
    \o (IF d.compress THEN <<"gzip">> ELSE <<>>)
    \o <<"close">>

\* the steps of Destroy, in the order of lines 313-319
DestroySteps(d) ==
  (IF d.compress THEN <<"gzip">> ELSE <<>>)
    \o (IF d.buffer THEN <<"flush">> ELSE <<>>)
    \o <<"close">>

DestroyStep(d, step, ok) ==
  CASE step = "gzip"  -> CloseGzipWriters(d, ok)
    [] step = "flush" -> FlushWriters(d, ok)
    [] step = "close" -> CloseFile(d)

\* the steps from the k-th on; a failed step panics and the rest is not run
RECURSIVE RunDestroy(_, _, _, _, _)
RunDestroy(d, steps, k, log, ok) ==
  IF k > Len(steps) THEN [d |-> d, panic |-> FALSE, log |-> log]
  ELSE LET r == DestroyStep(d, steps[k], ok)
       IN  IF r.err THEN [d |-> r.d, panic |-> TRUE, log |-> Append(log, steps[k])]
           ELSE RunDestroy(r.d, steps, k + 1, Append(log, steps[k]), ok)

LayerEncoderDestroy(d, ok) == RunDestroy(d, DestroySteps(d), 1, <<>>, ok)

(* -------------------------------- state -------------------------------- *)

Workers == 1..NumWorkers

NoEncoder == "nil"

Idle == [pc |-> "idle", e |-> NoEncoder, rec |-> 0, ret |-> "none"]

NoHistory == [done |-> <<>>, failed |-> FALSE, log |-> <<>>]

Flags == [Buffer : BOOLEAN, Compression : BOOLEAN, CSV : BOOLEAN, WriteChan : BOOLEAN]

Config(include, exclude, f) ==
  [IncludeEncoders |-> include, ExcludeEncoders |-> exclude,
   Buffer |-> f.Buffer, Compression |-> f.Compression,
   CSV |-> f.CSV, WriteChan |-> f.WriteChan]

\* the state after package initialisation, under configuration cfg
Start(cfg) ==
  /\ c = cfg
  /\ layerEncoderSlice = Catalog
  /\ LayerEncoders = [l \in Layers |-> NoEncoder]
  /\ enc = [l \in Layers |-> CreateLayerEncoder(l)]
  /\ pc = "resolve"
  /\ idx = 1
  /\ fatal = "none"
  /\ wk = [w \in Workers |-> Idle]
  /\ calls = 0
  /\ hist = [l \in Layers |-> NoHistory]

\* include lists of the run specification: the whole catalog, one encoder
RunNames == {<<>>, <<UDPEncoder>>}

Init ==
  \E in \in RunNames, f \in Flags : Start(Config(in, <<>>, f))

InitResolve ==
  \E in \in Strings(MaxIncludeLen), ex \in Strings(MaxExcludeLen), f \in Flags :
    Start(Config(in, ex, f))

(* --------------------------- InitLayerEncoders ------------------------- *)

\* invalidProto: the process ends
invalidProto == "invalidProto"

\* lines 121-162
Resolve ==
  /\ pc = "resolve"
  /\ LET r == Resolution(layerEncoderSlice, c.IncludeEncoders, c.ExcludeEncoders)
     IN  /\ layerEncoderSlice' = r.slice
         /\ pc' = IF r.invalid THEN "fatal" ELSE "init"
         /\ fatal' = IF r.invalid THEN invalidProto ELSE fatal
  /\ idx' = 1
  /\ UNCHANGED <<c, LayerEncoders, enc, wk, calls, hist>>

\* line 167, for the idx-th encoder of the slice
InitEncoder ==
  /\ pc = "init"
  /\ idx <= Len(layerEncoderSlice)
  /\ LET e == layerEncoderSlice[idx]
         r == LayerEncoderInit(enc[e], c.Buffer, c.Compression, c.CSV, c.WriteChan)
     IN  /\ enc' = [enc EXCEPT ![e] = r.d]
         /\ pc' = IF r.panic THEN "fatal" ELSE "header"
         /\ fatal' = IF r.panic THEN "writeChan" ELSE fatal
  /\ UNCHANGED <<c, layerEncoderSlice, LayerEncoders, idx, wk, calls, hist>>

\* HeaderWrite with the header left out
HeaderWriteSkipped(d, ok1, ok2) == [d |-> d, err |-> FALSE]

\* the header goes to the tabular writer or to the atomic writer
HeaderWrite(d, ok1, ok2) ==
  IF d.csv
  THEN IF d.csvWriter.set THEN WriteRow(d, 0, ok1)
       ELSE [d |-> [d EXCEPT !.nilUse = TRUE], err |-> TRUE]
  ELSE IF d.aWriter.set /\ d.dWriter.set THEN Put(d, 0, ok1, ok2)
       ELSE [d |-> [d EXCEPT !.nilUse = TRUE], err |-> TRUE]

\* WriteHeader with the error of the header write dropped
WriteHeaderErrorIgnored(ok1, ok2) ==
  /\ pc = "header"
  /\ LET e == layerEncoderSlice[idx]
         r == HeaderWrite(enc[e], ok1, ok2)
     IN  enc' = [enc EXCEPT ![e] = r.d]
  /\ pc' = "register"
  /\ UNCHANGED <<c, layerEncoderSlice, LayerEncoders, idx, fatal, wk, calls, hist>>

\* lines 169-181: a failed header write panics
WriteHeader(ok1, ok2) ==
  /\ pc = "header"
  /\ LET e == layerEncoderSlice[idx]
         r == HeaderWrite(enc[e], ok1, ok2)
     IN  /\ enc' = [enc EXCEPT ![e] = r.d]
         /\ pc' = IF r.err THEN "fatal" ELSE "register"
         /\ fatal' = IF r.err THEN "header" ELSE fatal
  /\ UNCHANGED <<c, layerEncoderSlice, LayerEncoders, idx, wk, calls, hist>>

\* line 183
Register ==
  /\ pc = "register"
  /\ LET e == layerEncoderSlice[idx]
     IN  LayerEncoders' = [LayerEncoders EXCEPT ![enc[e].Layer] = e]
  /\ idx' = idx + 1
  /\ pc' = "init"
  /\ UNCHANGED <<c, layerEncoderSlice, enc, fatal, wk, calls, hist>>

\* line 185: the loop is over and InitLayerEncoders returns
InitDone ==
  /\ pc = "init"
  /\ idx > Len(layerEncoderSlice)
  /\ pc' = "running"
  /\ UNCHANGED <<c, layerEncoderSlice, LayerEncoders, enc, idx, fatal, wk, calls, hist>>

(* -------------------------------- Encode ------------------------------- *)

\* Produced without the nil check
ProducedAlways(decoded) == TRUE

\* line 209: a nil record is not written
Produced(decoded) == decoded # 0

\* EncodeWriter with the framer used directly, not the atomic writer
EncodeWriterUnserialized(d) == IF d.csv THEN "csvWriter" ELSE "dWriter"

\* lines 210-216: the writer Encode hands the record to
EncodeWriter(d) == IF d.csv THEN "csvWriter" ELSE "aWriter"

\* the writers that serialize their callers with a mutex
Serializes(writer) == writer \in {"csvWriter", "aWriter"}

\* EncodeResult with the error of the write dropped
EncodeResultSwallowed(err) == "nil"

\* lines 212-214 and 217-222: the error of the write is the result
EncodeResult(err) == IF err THEN "err" ELSE "nil"

\* the driver dispatches a layer to the encoder registered for its type
Registered(e) == LayerEncoders[e] # NoEncoder

\* Encode returns: the worker is idle again and the call is recorded
Return(w, e, r, err) ==
  /\ wk' = [wk EXCEPT ![w] = [pc |-> "idle", e |-> e, rec |-> r, ret |-> EncodeResult(err)]]
  /\ hist' = IF err THEN [hist EXCEPT ![e].failed = TRUE]
             ELSE [hist EXCEPT ![e].done = Append(@, r)]

\* line 208, then line 209 or the call of the writer: the handler returns
\* nil (decoded = 0) or the record of this call
Encode(w, l, decoded) ==
  /\ pc = "running"
  /\ wk[w].pc = "idle"
  /\ calls < MaxEncodes
  /\ Registered(l)
  /\ decoded \in {0, calls + 1}
  /\ calls' = calls + 1
  /\ IF Produced(decoded)
     THEN /\ wk' = [wk EXCEPT ![w] = [pc |-> "write", e |-> LayerEncoders[l],
                                      rec |-> decoded, ret |-> "none"]]
          /\ UNCHANGED hist
     ELSE /\ wk' = [wk EXCEPT ![w] = [pc |-> "idle", e |-> LayerEncoders[l],
                                      rec |-> decoded, ret |-> EncodeResult(FALSE)]]
          /\ UNCHANGED hist
  /\ UNCHANGED <<c, layerEncoderSlice, LayerEncoders, enc, pc, idx, fatal>>

\* csvWriter.WriteRecord: lock, one write, unlock
WriteRecord(w, ok) ==
  /\ wk[w].pc = "write"
  /\ LET e == wk[w].e
         d == enc[e]
     IN  /\ EncodeWriter(d) = "csvWriter"
         /\ d.csvWriter.owner = 0
         /\ LET r == IF d.csvWriter.set THEN WriteRow(d, wk[w].rec, ok)
                     ELSE [d |-> [d EXCEPT !.nilUse = TRUE], err |-> TRUE]
            IN  /\ enc' = [enc EXCEPT ![e] = r.d]
                /\ Return(w, e, wk[w].rec, r.err)
  /\ UNCHANGED <<c, layerEncoderSlice, LayerEncoders, pc, idx, fatal, calls>>

\* PutProto, up to the first write of the framer: the mutex of the atomic
\* writer is taken, and released at once when the length prefix fails
PutProtoLength(w, ok) ==
  /\ wk[w].pc = "write"
  /\ LET e == wk[w].e
         d == enc[e]
         writer == EncodeWriter(d)
     IN  /\ writer # "csvWriter"
         /\ Serializes(writer) => d.aWriter.owner = 0
         /\ LET r == IF d.dWriter.set /\ (writer = "aWriter" => d.aWriter.set)
                     THEN PutLength(d, wk[w].rec, ok)
                     ELSE [d |-> [d EXCEPT !.nilUse = TRUE], err |-> TRUE]
            IN  IF r.err
                THEN /\ enc' = [enc EXCEPT ![e] = r.d]
                     /\ Return(w, e, wk[w].rec, TRUE)
                ELSE /\ enc' = [enc EXCEPT ![e] =
                                  IF Serializes(writer)
                                  THEN [r.d EXCEPT !.aWriter.owner = w] ELSE r.d]
                     /\ wk' = [wk EXCEPT ![w].pc = "put"]
                     /\ UNCHANGED hist
  /\ UNCHANGED <<c, layerEncoderSlice, LayerEncoders, pc, idx, fatal, calls>>

\* PutProto, the second write of the framer, the unlock and the return
PutProtoRecord(w, ok) ==
  /\ wk[w].pc = "put"
  /\ LET e == wk[w].e
         r == PutRecord(enc[e], wk[w].rec, ok)
     IN  /\ enc' = [enc EXCEPT ![e] = [r.d EXCEPT !.aWriter.owner = 0]]
         /\ Return(w, e, wk[w].rec, r.err)
  /\ UNCHANGED <<c, layerEncoderSlice, LayerEncoders, pc, idx, fatal, calls>>

(* ------------------------------- shutdown ------------------------------ *)

\* the driver stops dispatching once no Encode call is in flight
Quiesce ==
  /\ pc = "running"
  /\ \A w \in Workers : wk[w].pc = "idle"
  /\ pc' = "shutdown"
  /\ UNCHANGED <<c, layerEncoderSlice, LayerEncoders, enc, idx, fatal, wk, calls, hist>>

Destroyed(e) == hist[e].log # <<>>

\* the driver destroys every registered encoder once
Destroy(l, ok) ==
  /\ pc = "shutdown"
  /\ Registered(l)
  /\ ~Destroyed(LayerEncoders[l])
  /\ LET e == LayerEncoders[l]
         r == LayerEncoderDestroy(enc[e], ok)
     IN  /\ enc' = [enc EXCEPT ![e] = r.d]
         /\ hist' = [hist EXCEPT ![e].log = r.log]
         /\ pc' = IF r.panic THEN "fatal" ELSE pc
         /\ fatal' = IF r.panic THEN "destroy" ELSE fatal
  /\ UNCHANGED <<c, layerEncoderSlice, LayerEncoders, idx, wk, calls>>

(* ---------------------------- specifications --------------------------- *)

Startup ==
  \/ Resolve
  \/ InitEncoder
  \/ \E ok1, ok2 \in BOOLEAN : WriteHeader(ok1, ok2)
  \/ Register
  \/ InitDone

Next ==
  \/ Resolve
  \/ InitEncoder
  \/ \E ok1, ok2 \in BOOLEAN : WriteHeader(ok1, ok2)
  \/ Register
  \/ InitDone
  \/ \E w \in Workers, l \in Layers, decoded \in 0..MaxEncodes : Encode(w, l, decoded)
  \/ \E w \in Workers, ok \in BOOLEAN : WriteRecord(w, ok)
  \/ \E w \in Workers, ok \in BOOLEAN : PutProtoLength(w, ok)
  \/ \E w \in Workers, ok \in BOOLEAN : PutProtoRecord(w, ok)
  \/ Quiesce
  \/ \E l \in Layers, ok \in BOOLEAN : Destroy(l, ok)

\* start up, concurrent Encode calls, shut down
Spec == Init /\ [][Next]_vars

\* the resolution of the include and exclude lists and the start up
SpecResolve == InitResolve /\ [][Startup]_vars

(* ------------------------- reading a sink back ------------------------- *)

RECURSIVE Flatten(_)
Flatten(chunks) ==
  IF chunks = <<>> THEN <<>> ELSE Head(chunks) \o Flatten(Tail(chunks))

\* what has reached the file or is still in the buffer in front of it
Stored(d) ==
  (IF d.file.set THEN d.file.data ELSE <<>>)
    \o (IF d.bWriter.set THEN d.bWriter.buf ELSE <<>>)

\* decompression: the trailer is dropped, the units are plain again
Inflate(us) ==
  LET body == SelectSeq(us, LAMBDA u : u.k # "eof")
  IN  [i \in 1..Len(body) |-> [body[i] EXCEPT !.z = FALSE]]

\* the units written to the sink stack of d, in the order the stack holds them
Stream(d) ==
  IF d.cWriter.set /\ d.dWriter.under = "cWriter" THEN Flatten(d.cWriter.ch)
  ELSE IF d.gWriter.set THEN Inflate(Stored(d)) \o d.gWriter.pending
  ELSE Stored(d)

\* one record as the sink of d frames it
Frame(d, r) ==
  IF d.csv THEN <<Unit("row", r)>> ELSE <<Unit("len", r), Unit("dat", r)>>

RECURSIVE Frames(_, _)
Frames(d, rs) ==
  IF rs = <<>> THEN <<>> ELSE Frame(d, Head(rs)) \o Frames(d, Tail(rs))

IsPrefix(s, t) == Len(s) <= Len(t) /\ SubSeq(t, 1, Len(s)) = s

Range(s) == {s[i] : i \in 1..Len(s)}

\* the lifecycle state Active: the stack is built and Destroy has not run
Active(e) ==
  /\ enc[e].csvWriter.set \/ enc[e].aWriter.set
  /\ ~Destroyed(e)

(* ------------------------ the resolved active set ---------------------- *)

\* the non-empty names of a comma-separated list
NamesIn(s) == {n \in Range(Split(s)) : n # <<>>}

AllInCatalog(s) == \A n \in NamesIn(s) : \E i \in 1..Len(Catalog) : n = LayerString(Catalog[i])

\* (catalog if no name is included, else the included entries) minus the
\* excluded entries, in catalog order
ActiveSet(include, exclude) ==
  SelectSeq(Catalog, LAMBDA e :
    /\ NamesIn(include) = {} \/ LayerString(e) \in NamesIn(include)
    /\ LayerString(e) \notin NamesIn(exclude))

Resolved == pc # "resolve"

NothingBuilt ==
  /\ \A l \in Layers : ~Registered(l)
  /\ \A e \in Layers : ~enc[e].file.set /\ ~enc[e].cWriter.set /\ Stream(enc[e]) = <<>>

\* C1: with every listed name in the catalog, the encoders InitLayerEncoders
\* goes on to activate are (catalog if the include list has no non-empty
\* name, else the included entries) minus the excluded entries, in catalog
\* order, and the registry it completes with holds exactly those
C1_ActiveSetIsIncludeMinusExclude ==
  (Resolved /\ AllInCatalog(c.IncludeEncoders) /\ AllInCatalog(c.ExcludeEncoders)) =>
     /\ layerEncoderSlice = ActiveSet(c.IncludeEncoders, c.ExcludeEncoders)
     /\ pc = "running" =>
          {l \in Layers : Registered(l)}
            = Range(ActiveSet(c.IncludeEncoders, c.ExcludeEncoders))

\* C2: an unknown non-empty name anywhere in the include or exclude list
\* ends InitLayerEncoders in the invalid-protocol error with no file
\* created, no header written and no registry entry
C2_UnknownNameIsFatalBeforeInit ==
  (Resolved /\ ~(AllInCatalog(c.IncludeEncoders) /\ AllInCatalog(c.ExcludeEncoders))) =>
     /\ pc = "fatal"
     /\ fatal = invalidProto
     /\ NothingBuilt

(* ------------------------- claims about the sinks ---------------------- *)

\* C3: with writeChan set and buffer or compress set, whatever csv is, Init
\* fails before it creates a file, so that no encoder is ever Active under
\* such flags
C3_WriteChanConflictRejected ==
  (c.WriteChan /\ (c.Buffer \/ c.Compression)) =>
     \A e \in Layers : ~enc[e].file.set /\ ~Active(e)

\* the workers between the two writes of a frame on the sink of e
Putting(e) == {w \in Workers : wk[w].pc = "put" /\ wk[w].e = e}

\* the length prefixes of the frames in flight on the sink of e
InFlight(e) == {<<Unit("len", wk[w].rec)>> : w \in Putting(e)}

\* C4: as long as no write failed, the sink of an encoder holds the header
\* and then exactly the records of the Encode calls that returned, each as
\* one whole frame or row, followed by nothing but the length prefix of the
\* one call that holds the serializer; no unit of one record stands inside
\* another record
C4_ConcurrentRecordsAreWhole ==
  \A e \in Layers :
    (Registered(e) /\ ~hist[e].failed /\ ~Destroyed(e)) =>
       /\ Cardinality(Putting(e)) <= 1
       /\ \E tail \in (IF Putting(e) = {} THEN {<<>>} ELSE InFlight(e)) :
            Stream(enc[e]) = Frames(enc[e], <<0>> \o hist[e].done) \o tail

\* two workers have each had a record written to the same encoder, and the
\* call that began later was written first
C4_Witness ==
  \E e \in Layers :
    /\ enc[e].buffer /\ ~enc[e].csv
    /\ ~hist[e].failed
    /\ hist[e].done = <<2, 1>>
    /\ wk[1].pc = "idle" /\ wk[2].pc = "idle"
    /\ wk[1].e = e /\ wk[2].e = e /\ wk[1].rec # wk[2].rec
    /\ wk[1].rec > 0 /\ wk[2].rec > 0

HeaderUnits(d) == SelectSeq(Stream(d), LAMBDA u : u.r = 0)

\* C5: whatever a sink holds begins with the header, the header is in it
\* once, a data record is only ever in the sink of a registered encoder,
\* and a registered encoder whose writes all succeeded has its whole header
\* in front
C5_HeaderFirstAndOnce ==
  \A e \in Layers :
    /\ Stream(enc[e]) # <<>> => Stream(enc[e])[1] = Frame(enc[e], 0)[1]
    /\ IsPrefix(HeaderUnits(enc[e]), Frame(enc[e], 0))
    /\ (\E i \in 1..Len(Stream(enc[e])) : Stream(enc[e])[i].r # 0) => Registered(e)
    /\ (Registered(e) /\ ~hist[e].failed /\ ~Destroyed(e)) =>
          IsPrefix(Frame(enc[e], 0), Stream(enc[e]))

\* an encoder is registered, records follow its header
C5_Witness ==
  \E e \in Layers :
    /\ Registered(e)
    /\ enc[e].compress
    /\ Len(hist[e].done) >= 2
    /\ IsPrefix(Frame(enc[e], 0), Stream(enc[e]))
    /\ Len(Stream(enc[e])) > Len(Frame(enc[e], 0))

(* ------------------------ claims about Destroy ------------------------- *)

\* Destroy has run to its end on e
Closed(e) == Destroyed(e) /\ hist[e].log[Len(hist[e].log)] = "close" /\ fatal # "destroy"

\* a compressed file is whole: compressed units only, the trailer last and
\* nowhere else
WholeArchive(data) ==
  /\ data # <<>>
  /\ \A i \in 1..Len(data) : data[i].z /\ (data[i].k = "eof" <=> i = Len(data))

\* C6: the closed file of an encoder whose Encode calls all succeeded holds,
\* once decompressed if compress is set, the header and then every record
\* written, in write order; nothing is left in the compressor or in the
\* buffer
C6_ClosedFileHoldsAllRecords ==
  \A e \in Layers :
    (Closed(e) /\ enc[e].file.set /\ ~hist[e].failed) =>
       /\ ~enc[e].file.open
       /\ enc[e].bWriter.buf = <<>>
       /\ enc[e].gWriter.pending = <<>>
       /\ IF enc[e].compress
          THEN /\ WholeArchive(enc[e].file.data)
               /\ Inflate(enc[e].file.data) = Frames(enc[e], <<0>> \o hist[e].done)
          ELSE enc[e].file.data = Frames(enc[e], <<0>> \o hist[e].done)

\* a buffered, compressed file is closed with two records behind its header
C6_Witness ==
  \E e \in Layers :
    /\ Closed(e) /\ enc[e].file.set /\ ~hist[e].failed
    /\ enc[e].compress /\ enc[e].buffer
    /\ Len(hist[e].done) >= 2

\* C7: under flags that pass validation (writeChan implies neither buffer
\* nor compress), writeChan included, no Encode and no Destroy uses a file,
\* buffer, compressor or writer that Init has not set
C7_ValidConfigNeverUsesUnsetResource ==
  (c.WriteChan => ~c.Buffer /\ ~c.Compression) =>
     \A e \in Layers : ~enc[e].nilUse

Position(log, step) == CHOOSE i \in 1..Len(log) : log[i] = step

Count(log, step) == Cardinality({i \in 1..Len(log) : log[i] = step})

\* C10: Destroy finalizes the compressor only if compress is set, flushes
\* the buffer only if buffer is set, the former before the latter and both
\* before the file is closed; the file is closed once and last
C10_DestroyOrder ==
  \A e \in Layers :
    LET log == hist[e].log IN
    /\ \A step \in {"gzip", "flush", "close"} : Count(log, step) <= 1
    /\ Count(log, "gzip") = 1 => enc[e].compress
    /\ Count(log, "flush") = 1 => enc[e].buffer
    /\ (Count(log, "gzip") = 1 /\ Count(log, "flush") = 1) =>
          Position(log, "gzip") < Position(log, "flush")
    /\ Count(log, "close") = 1 =>
          /\ Position(log, "close") = Len(log)
          /\ enc[e].compress => Count(log, "gzip") = 1 /\ enc[e].gWriter.closed
          /\ enc[e].buffer => Count(log, "flush") = 1 /\ enc[e].bWriter.buf = <<>>

\* Destroy has run all three steps on an encoder that holds records
C10_Witness ==
  \E e \in Layers :
    /\ hist[e].log = <<"gzip", "flush", "close">>
    /\ hist[e].done # <<>>
    /\ ~enc[e].file.open

(* ------------------------- claims about Encode ------------------------- *)

\* in this step worker w called Encode and its handler returned nil
NilCall(w) ==
  /\ calls' = calls + 1
  /\ wk[w].pc = "idle"
  /\ wk'[w].rec = 0
  /\ \A v \in Workers \ {w} : wk'[v] = wk[v]

\* C8: an Encode call whose handler returns nil returns no error and writes
\* nothing: every sink, and every encoder, is as it was
C8_NilRecordWritesNothing ==
  [][(\E w \in Workers : NilCall(w)) =>
       /\ enc' = enc
       /\ \A e \in Layers : Stream(enc'[e]) = Stream(enc[e])
       /\ \E w \in Workers :
            NilCall(w) /\ wk'[w].pc = "idle" /\ wk'[w].ret = "nil"]_vars

\* a handler has returned nil for an encoder that holds records
C8_Witness ==
  \E w \in Workers :
    /\ wk[w].pc = "idle" /\ wk[w].rec = 0 /\ wk[w].ret = "nil"
    /\ wk[w].e # NoEncoder
    /\ hist[wk[w].e].done # <<>>

\* the unit worker w hands to the sink in its next write
NextUnit(w) ==
  IF wk[w].pc = "put" THEN Unit("dat", wk[w].rec)
  ELSE IF enc[wk[w].e].csv THEN Unit("row", wk[w].rec)
  ELSE Unit("len", wk[w].rec)

\* in this step the sink of the encoder of w took the unit of w
Appended(w) ==
  Stream(enc'[wk[w].e]) = Append(Stream(enc[wk[w].e]), NextUnit(w))

\* in this step worker w made a write of its Encode call
WriteStep(w) == wk[w].pc \in {"write", "put"} /\ wk'[w] # wk[w]

\* C9: a failed sink write ends the Encode call at once with the error; the
\* process goes on, the encoder stays registered and Active with its
\* serializer free, and Encode returns an error only for a failed write
C9_WriteErrorIsReturnedOnce ==
  [][\A w \in Workers : WriteStep(w) =>
       /\ ~Appended(w) => wk'[w].pc = "idle" /\ wk'[w].ret = "err"
       /\ (wk'[w].pc = "idle" /\ wk'[w].ret = "err") => ~Appended(w)
       /\ calls' = calls
       /\ pc' = "running" /\ fatal' = "none"
       /\ wk'[w].pc = "idle" =>
            /\ Registered(wk[w].e)'
            /\ Active(wk[w].e)'
            /\ enc'[wk[w].e].aWriter.owner = 0
            /\ enc'[wk[w].e].csvWriter.owner = 0]_vars

\* an Encode call has returned an error and a later call on the same
\* encoder has succeeded
C9_Witness ==
  \E w, v \in Workers :
    /\ wk[w].pc = "idle" /\ wk[w].ret = "err"
    /\ wk[v].pc = "idle" /\ wk[v].ret = "nil" /\ wk[v].e = wk[w].e
    /\ wk[v].rec > wk[w].rec
    /\ hist[wk[w].e].failed
    /\ pc = "running"

(* ---------------------- claims about the sink stack -------------------- *)

\* Init has built a stack for e
Built(e) == enc[e].csvWriter.set \/ enc[e].aWriter.set

\* the name the flags give the file of an encoder
FileExt(csv, compress) ==
  CASE csv /\ compress   -> ".csv.gz"
    [] csv /\ ~compress  -> ".csv"
    [] ~csv /\ compress  -> ".ncap.gz"
    [] OTHER             -> ".ncap"

\* C11: without writeChan, Init builds file -> buffer (iff buffer) ->
\* compressor (iff compress, on the buffer when both are set) -> top writer,
\* the tabular writer iff csv and the framer otherwise; the file is named
\* after the protocol, .csv or .ncap, with .gz exactly when compress is set
C11_FileStackFollowsFlags ==
  \A e \in Layers :
    (Built(e) /\ ~c.WriteChan) =>
       LET d == enc[e]
           top == IF c.CSV THEN d.csvWriter ELSE d.dWriter
       IN  /\ d.file.set /\ d.file.base = LayerString(e)
           /\ d.file.ext = FileExt(c.CSV, c.Compression)
           /\ d.bWriter.set <=> c.Buffer
           /\ d.bWriter.set => d.bWriter.under = "file"
           /\ d.gWriter.set <=> c.Compression
           /\ d.gWriter.set =>
                d.gWriter.under = (IF c.Buffer THEN "bWriter" ELSE "file")
           /\ d.csvWriter.set <=> c.CSV
           /\ d.dWriter.set <=> ~c.CSV
           /\ top.set
           /\ top.under = (IF c.Compression THEN "gWriter"
                           ELSE IF c.Buffer THEN "bWriter" ELSE "file")
           /\ ~d.cWriter.set

\* a tabular encoder stands on compressor, buffer and file
C11_Witness ==
  \E e \in Layers :
    /\ Registered(e) /\ ~c.WriteChan
    /\ c.CSV /\ c.Buffer /\ c.Compression
    /\ enc[e].file.ext = ".csv.gz"
    /\ enc[e].csvWriter.under = "gWriter"

\* GetChan: the channel of the channel writer, chunk by chunk
GetChan(d) == d.cWriter.ch

\* the flags of a binary live stream
LiveStream == c.WriteChan /\ ~c.CSV /\ ~c.Buffer /\ ~c.Compression

\* C12: a binary encoder under writeChan (buffer and compress unset) never
\* has a file, a buffer or a compressor; once built its framer stands on the
\* channel writer, and GetChan hands out the channel that holds, one chunk
\* per write, the header and the records written
C12_LiveStreamHasChannelOnly ==
  LiveStream =>
    \A e \in Layers :
      LET d == enc[e] IN
      /\ ~d.file.set /\ ~d.bWriter.set /\ ~d.gWriter.set /\ ~d.csvWriter.set
      /\ Built(e) =>
           /\ d.cWriter.set /\ d.dWriter.set /\ d.aWriter.set
           /\ d.dWriter.under = "cWriter"
      /\ Registered(e) =>
           /\ Len(GetChan(d)) = 2 + 2 * Len(hist[e].done) + Cardinality(Putting(e))
           /\ GetChan(d)[1] = <<Unit("len", 0)>>
           /\ GetChan(d)[2] = <<Unit("dat", 0)>>
           /\ \A i \in 1..Len(GetChan(d)) : Len(GetChan(d)[i]) = 1

\* a live stream encoder has put the header and two records on its channel
C12_Witness ==
  \E e \in Layers :
    /\ LiveStream /\ Registered(e)
    /\ Len(hist[e].done) = 2
    /\ Len(GetChan(enc[e])) = 6

\* C13 as claimed: in every shape, the tabular one included, the writer of
\* the header and of Encode is the atomic writer
C13_EveryShapeThroughAtomicWriter ==
  \A e \in Layers :
    Built(e) => enc[e].aWriter.set /\ EncodeWriter(enc[e]) = "aWriter"

\* C13, amended: in the binary shapes (file and live stream) the header and
\* every record go through the atomic writer, which stands on the framer and
\* is held by the worker between the two writes of a frame; in the tabular
\* shape they go through the tabular writer, which stands on the sink stack
\* itself, and no atomic writer and no framer is created
C13_AtomicWriterInBinaryShapes ==
  \A e \in Layers :
    Built(e) =>
      LET d == enc[e] IN
      IF c.CSV
      THEN /\ d.csvWriter.set /\ ~d.aWriter.set /\ ~d.dWriter.set
           /\ EncodeWriter(d) = "csvWriter"
           /\ d.csvWriter.under \in {"file", "bWriter", "gWriter"}
           /\ Putting(e) = {}
      ELSE /\ d.aWriter.set /\ d.dWriter.set /\ ~d.csvWriter.set
           /\ d.aWriter.under = "dWriter"
           /\ EncodeWriter(d) = "aWriter"
           /\ \A w \in Putting(e) : d.aWriter.owner = w
           /\ Putting(e) = {} => d.aWriter.owner = 0

\* a tabular encoder has written records and has no atomic writer
C13_Witness ==
  \E e \in Layers :
    /\ Registered(e) /\ c.CSV
    /\ Len(hist[e].done) >= 2
    /\ ~enc[e].aWriter.set
    /\ enc[e].csvWriter.set

(* ---------------------- claims about the catalog ----------------------- *)

\* C14: resolution leaves the list of all available encoders as it was: once
\* InitLayerEncoders has resolved the lists, layerEncoderSlice still holds
\* the catalog, entry by entry
C14_CatalogUnchanged ==
  Resolved => layerEncoderSlice = Catalog

(* ----------------- the public operations, in any order ---------------- *)

\* number of calls of Init, Encode and Destroy a caller makes
MaxOps == 3

\* the encoders as CreateLayerEncoder leaves them, before any call
InitLifecycle ==
  /\ c = Config(<<>>, <<>>, [Buffer |-> FALSE, Compression |-> FALSE,
                             CSV |-> FALSE, WriteChan |-> FALSE])
  /\ layerEncoderSlice = Catalog
  /\ LayerEncoders = [l \in Layers |-> NoEncoder]
  /\ enc = [l \in Layers |-> CreateLayerEncoder(l)]
  /\ pc = "api"
  /\ idx = 1
  /\ fatal = "none"
  /\ wk = [w \in Workers |-> Idle]
  /\ calls = 0
  /\ hist = [l \in Layers |-> NoHistory]

\* d.Init(buffer, compress, csv, out, writeChan), whatever d has been through
CallInit(e, f) ==
  /\ pc = "api"
  /\ calls < MaxOps
  /\ LET r == LayerEncoderInit(enc[e], f.Buffer, f.Compression, f.CSV, f.WriteChan)
     IN  /\ enc' = [enc EXCEPT ![e] = r.d]
         /\ pc' = IF r.panic THEN "fatal" ELSE pc
         /\ fatal' = IF r.panic THEN "writeChan" ELSE fatal
  /\ calls' = calls + 1
  /\ UNCHANGED <<c, layerEncoderSlice, LayerEncoders, idx, wk, hist>>

\* lines 210-220: the record goes to the tabular writer or to the atomic
\* writer; a nil writer is dereferenced
EncodeWrite(d, r, ok1, ok2) ==
  IF EncodeWriter(d) = "csvWriter"
  THEN IF d.csvWriter.set THEN WriteRow(d, r, ok1)
       ELSE [d |-> [d EXCEPT !.nilUse = TRUE], err |-> TRUE]
  ELSE IF d.aWriter.set /\ d.dWriter.set THEN Put(d, r, ok1, ok2)
       ELSE [d |-> [d EXCEPT !.nilUse = TRUE], err |-> TRUE]

\* d.Encode(l, timestamp) by a single caller, on an encoder Init has built
CallEncode(e, decoded, ok1, ok2) ==
  /\ pc = "api"
  /\ calls < MaxOps
  /\ enc[e].csvWriter.set \/ enc[e].aWriter.set
  /\ decoded \in {0, calls + 1}
  /\ calls' = calls + 1
  /\ IF Produced(decoded)
     THEN LET r == EncodeWrite(enc[e], decoded, ok1, ok2)
          IN  /\ enc' = [enc EXCEPT ![e] = r.d]
              /\ hist' = IF r.err THEN [hist EXCEPT ![e].failed = TRUE]
                         ELSE [hist EXCEPT ![e].done = Append(@, decoded)]
     ELSE UNCHANGED <<enc, hist>>
  /\ UNCHANGED <<c, layerEncoderSlice, LayerEncoders, pc, idx, fatal, wk>>

\* d.Destroy() on an encoder Init has built, whatever it has been through
\* since
CallDestroy(e, ok) ==
  /\ pc = "api"
  /\ calls < MaxOps
  /\ enc[e].csvWriter.set \/ enc[e].aWriter.set
  /\ LET r == LayerEncoderDestroy(enc[e], ok)
     IN  /\ enc' = [enc EXCEPT ![e] = r.d]
         /\ hist' = [hist EXCEPT ![e].log = @ \o r.log]
         /\ pc' = IF r.panic THEN "fatal" ELSE pc
         /\ fatal' = IF r.panic THEN "destroy" ELSE fatal
  /\ calls' = calls + 1
  /\ UNCHANGED <<c, layerEncoderSlice, LayerEncoders, idx, wk>>

NextLifecycle ==
  \/ \E e \in Layers, f \in Flags : CallInit(e, f)
  \/ \E e \in Layers, decoded \in 0..MaxOps, ok1, ok2 \in BOOLEAN :
       CallEncode(e, decoded, ok1, ok2)
  \/ \E e \in Layers, ok \in BOOLEAN : CallDestroy(e, ok)

\* Init, Encode and Destroy called in any order on any encoder
SpecLifecycle == InitLifecycle /\ [][NextLifecycle]_vars

\* Destroy has closed the file of e, or has been through CloseFile without one
EverClosed(e) == "close" \in Range(hist[e].log)

\* the stack of e is built and stands on an open file
OpenSink(e) == Built(e) /\ enc[e].file.set /\ enc[e].file.open

\* C15: Closed is terminal: whatever public operations follow, an encoder
\* that Destroy has closed is not Active again: its sink stack is not built
\* a second time and it has no open file again
C15_ClosedIsTerminal ==
  \A e \in Layers : EverClosed(e) => ~OpenSink(e)

(* ----------------------------- the registry ---------------------------- *)

\* line 183 for every encoder the resolution left: one entry per encoder of
\* the slice, under its layer type, holding that encoder, and no other entry
RegistryIsSlice ==
  \A l \in Layers :
    LayerEncoders[l] = IF l \in Range(layerEncoderSlice) THEN enc[l].Layer ELSE NoEncoder

\* no name of the exclude list has an entry
ExcludedUnregistered ==
  \A l \in Layers : LayerString(l) \in NamesIn(c.ExcludeEncoders) => ~Registered(l)

\* when the include list names protocols, no other protocol has an entry
NonIncludedUnregistered ==
  NamesIn(c.IncludeEncoders) # {} =>
    \A l \in Layers : LayerString(l) \notin NamesIn(c.IncludeEncoders) => ~Registered(l)

\* C16: when InitLayerEncoders completes, the registry holds one entry per
\* encoder of the resolved active set, keyed by its layer type and mapping
\* to it, and no entry for an excluded or non-included protocol
C16_RegistryIsActiveSet ==
  pc = "running" =>
    /\ RegistryIsSlice
    /\ ExcludedUnregistered
    /\ NonIncludedUnregistered

\* the part of C16 that is about the loop of lines 164-184 alone
RegistryFollowsResolution ==
  pc = "running" => RegistryIsSlice /\ ExcludedUnregistered

(* ------------------------- a failed header write ----------------------- *)

\* the whole header is what the sink of e begins with
HeaderWritten(e) == IsPrefix(Frame(enc[e], 0), Stream(enc[e]))

\* the encoders the loop of line 164 has not come to
Later == {layerEncoderSlice[j] : j \in (idx + 1)..Len(layerEncoderSlice)}

\* the state the panic of line 172 or 178 leaves
HeaderAbort ==
  fatal = "header" =>
    /\ pc = "fatal"
    /\ ~Registered(layerEncoderSlice[idx])
    /\ \A e \in Later : ~Registered(e) /\ enc[e] = CreateLayerEncoder(e)
    /\ calls = 0
    /\ \A w \in Workers : wk[w] = Idle
    /\ \A e \in Layers : hist[e].done = <<>> /\ ~hist[e].failed

\* the header step goes on to line 183 only with the header in the sink,
\* and panics otherwise
HeaderStep ==
  pc = "header" =>
    LET e == layerEncoderSlice[idx]
        written == IsPrefix(Frame(enc'[e], 0), Stream(enc'[e]))
    IN  /\ written => pc' = "register" /\ fatal' = fatal
        /\ ~written => pc' = "fatal" /\ fatal' = "header"

\* C17: a failed header write aborts initialization: the encoder is not
\* registered, no later encoder of the active set is initialized, and no
\* Encode reaches a sink whose header was not written
C17_HeaderFailureAborts ==
  /\ [](HeaderAbort)
  /\ [][HeaderStep]_vars
  /\ [](\A e \in Layers : (Registered(e) /\ calls = 0 /\ ~Destroyed(e)) => HeaderWritten(e))

\* the header of the second encoder failed after the first was registered
C17_Witness ==
  /\ fatal = "header"
  /\ Len(layerEncoderSlice) = 2
  /\ idx = 2
  /\ Registered(layerEncoderSlice[1])
  /\ Stream(enc[layerEncoderSlice[2]]) # <<>>
  /\ ~HeaderWritten(layerEncoderSlice[2])

(* ------------------------- the writer Encode uses ---------------------- *)

\* the writer of d that the header write and Encode dereference is set
TopWriterSet(d) ==
  \/ EncodeWriter(d) = "csvWriter" /\ d.csvWriter.set
  \/ EncodeWriter(d) = "aWriter" /\ d.aWriter.set

\* the encoders whose writer is about to be, or is being, dereferenced: the
\* one the loop of line 164 has initialized, the registered ones and those
\* a worker is writing to
InUse ==
  {layerEncoderSlice[i] : i \in {j \in 1..Len(layerEncoderSlice) :
                                   j = idx /\ pc \in {"header", "register"}}}
    \cup {e \in Layers : Registered(e)}
    \cup {wk[w].e : w \in {v \in Workers : wk[v].pc # "idle"}}

\* C18: after Init has succeeded, under any flags, exactly one of csvWriter
\* and aWriter is set, the one the csv flag selects, and it is the one the
\* header write and Encode dereference: that writer is never unset
C18_ExactlyOneTopWriter ==
  /\ \A e \in Layers :
       Built(e) =>
         /\ enc[e].csvWriter.set # enc[e].aWriter.set
         /\ enc[e].csv = c.CSV
         /\ enc[e].csvWriter.set <=> enc[e].csv
         /\ TopWriterSet(enc[e])
  /\ \A e \in InUse : Built(e) /\ TopWriterSet(enc[e])

\* under csv with writeChan a worker is writing a row through csvWriter,
\* the only writer set
C18_Witness ==
  \E w \in Workers :
    /\ wk[w].pc = "write"
    /\ c.CSV /\ c.WriteChan
    /\ enc[wk[w].e].csvWriter.set
    /\ ~enc[wk[w].e].aWriter.set
    /\ Registered(wk[w].e)

====
